---- MODULE Spec2Model ----
(***************************************************************************)
(* The friend-request, friendship, chat-message and notification handlers  *)
(* of core/views.py over the shared database.  Every HTTP request is       *)
(* served by its own worker; Django runs each ORM statement in autocommit  *)
(* mode (views.py opens no transaction), so one step of a worker is one    *)
(* ORM statement together with the Python that follows it up to the next.  *)
(***************************************************************************)
EXTENDS Integers, Sequences, FiniteSets, TLC

\* ------------------------------------------------------------------ bounds
MaxRequests == 2      \* rows the FriendRequest table may grow to
MaxMessages == 2      \* rows the Message table may grow to
MaxNotifications == 2 \* rows the Notification table may grow to

\* ------------------------------------------------------------ input domains
Users == {"A", "B", "C"}
Workers == {"w1", "w2"}
Bodies == {"", "hi", "hello"}
NoUser == "nobody"
NoRequest == [sender |-> NoUser, receiver |-> NoUser, status |-> "none"]
NoNotification == [user |-> NoUser, is_read |-> FALSE]

\* primary keys a client may put in the URL; one names no row for as long as
\* the table is shorter than it
RequestIds == 1..MaxRequests

VARIABLES
    requests,       \* FriendRequest table: row pk is requests[pk]
    friendships,    \* Friendship table: number of rows per (user1, user2)
    messages,       \* Message table in insertion (timestamp) order
    pc,             \* per worker: the statement it executes next
    op,             \* per worker: the handler of the call it serves
    user,           \* per worker: request.user of the call it serves
    pk,             \* per worker: pk of the call it serves
    friend_request, \* per worker: the instance loaded by get_object_or_404
    response,       \* per worker: outcome of its last finished call
    createResponse, \* outcome of the last create call
    msgResponse,    \* outcome of the last message call
    threadResult,   \* rows of the last thread listing
    notifications,  \* Notification table: row pk is notifications[pk]
    notification,   \* per worker: the instance loaded by get_object_or_404
    destroyResponse \* outcome of the last destroy call

messageVars == <<messages, msgResponse, threadResult>>
notificationVars == <<notifications, notification>>
otherVars == <<messageVars, notificationVars, destroyResponse>>
vars == <<requests, friendships, otherVars, pc, op, user, pk, friend_request,
          response, createResponse>>
friendVars == <<requests, friendships, pc, op, user, pk, friend_request,
                response, createResponse>>

Init ==
    /\ requests = <<>>
    /\ friendships = [p \in Users \X Users |-> 0]
    /\ messages = <<>>
    /\ pc = [w \in Workers |-> "idle"]
    /\ op = [w \in Workers |-> "none"]
    /\ user = [w \in Workers |-> NoUser]
    /\ pk = [w \in Workers |-> 0]
    /\ friend_request = [w \in Workers |-> NoRequest]
    /\ response = [w \in Workers |-> "none"]
    /\ createResponse = "none"
    /\ msgResponse = "none"
    /\ threadResult = [kind |-> "unset", rows |-> <<>>]
    /\ notifications = <<>>
    /\ notification = [w \in Workers |-> NoNotification]
    /\ destroyResponse = "none"

\* a worker serves one call: it is free until it has taken its call
Free(w) == pc[w] = "idle"

\* the worker finishes its call with outcome r
Finish(w, r) ==
    /\ pc' = [pc EXCEPT ![w] = "done"]
    /\ response' = [response EXCEPT ![w] = r]

\* --------------------------------------------------- FriendRequest: create

\* FriendRequestSerializer.is_valid for the posted data.  The serializer is
\* declared in core/serializers.py; its rule is the specification's: a request
\* to oneself is an InvalidTarget.
FriendRequestSerializerIsValid(u, data) == data.receiver # u

\* the sender taken from the posted data instead of request.user
CreatedRequest_PostedSender(u, data) ==
    [sender |-> data.sender, receiver |-> data.receiver, status |-> "pending"]

\* serializer.save(sender=self.request.user): the row that is inserted
CreatedRequest(u, data) ==
    [sender |-> u, receiver |-> data.receiver, status |-> "pending"]

\* CreateModelMixin.create: validate, then perform_create inserts the row.  The
\* handler is one INSERT, so it is one step and needs no worker of its own.
perform_create(u, data) ==
    /\ Len(requests) < MaxRequests
    /\ IF FriendRequestSerializerIsValid(u, data)
       THEN /\ requests' = Append(requests, CreatedRequest(u, data))
            /\ createResponse' = "Created"
       ELSE /\ requests' = requests
            /\ createResponse' = "InvalidTarget"
    /\ UNCHANGED <<friendships, otherVars, pc, op, user, pk, friend_request,
                   response>>

\* ------------------------------------------------- get_object_or_404

\* the lookup without its receiver=request.user filter
GetObjectOr404_AnyReceiver(u, id) ==
    IF id \in DOMAIN requests THEN requests[id] ELSE NoRequest

\* get_object_or_404(FriendRequest, pk=id, receiver=u): the row, or NoRequest
\* when no row has that pk and that receiver
GetObjectOr404(u, id) ==
    IF id \in DOMAIN requests /\ requests[id].receiver = u
    THEN requests[id]
    ELSE NoRequest

\* the status test written against 'accepted' alone
IsPending_NotAccepted(fr) == fr.status # "accepted"

\* friend_request.status != 'pending' is false
IsPending(fr) == fr.status = "pending"

\* the status written to every request of the loaded one's receiver
SaveStatus_AllOfReceiver(w, s) ==
    requests' = [id \in DOMAIN requests |->
                    IF requests[id].receiver = friend_request[w].receiver
                    THEN [requests[id] EXCEPT !.status = s]
                    ELSE requests[id]]

\* friend_request.status = s; friend_request.save(): Model.save() writes every
\* field of the loaded instance to the row with its pk
SaveStatus(w, s) ==
    requests' = [requests EXCEPT ![pk[w]] = [friend_request[w] EXCEPT !.status = s]]

\* --------------------------------------------------------------- Friendship

\* Friendship.objects.filter(user1=u1, user2=u2).exists()
FriendshipExists(u1, u2) == friendships[<<u1, u2>>] > 0

\* the store's uniqueness constraint on the pair (user1, user2).  The
\* Friendship model is declared in core/models.py; the constraint is the
\* specification's.
UniqueTogether(u1, u2) == friendships[<<u1, u2>>] = 0

\* the table after Friendship.objects.create(user1=u1, user2=u2)
FriendshipInserted(u1, u2) ==
    [friendships EXCEPT ![<<u1, u2>>] = @ + 1]

\* --------------------------------------------------- FriendRequest: accept

\* lines 55-57: load the request, refuse one that is not pending
accept(w, u, id) ==
    /\ Free(w)
    /\ op' = [op EXCEPT ![w] = "accept"]
    /\ user' = [user EXCEPT ![w] = u]
    /\ pk' = [pk EXCEPT ![w] = id]
    /\ LET fr == GetObjectOr404(u, id) IN
       /\ friend_request' = [friend_request EXCEPT ![w] = fr]
       /\ IF fr = NoRequest THEN Finish(w, "NotFound")
          ELSE IF ~IsPending(fr) THEN Finish(w, "AlreadyProcessed")
          ELSE /\ pc' = [pc EXCEPT ![w] = "accept_exists"]
               /\ response' = [response EXCEPT ![w] = "none"]
    /\ UNCHANGED <<requests, friendships, otherVars, createResponse>>

\* lines 59-60: already friends?
accept_exists(w) ==
    /\ pc[w] = "accept_exists"
    /\ IF FriendshipExists(friend_request[w].sender, friend_request[w].receiver)
       THEN Finish(w, "DuplicateFriendship")
       ELSE /\ pc' = [pc EXCEPT ![w] = "accept_save"]
            /\ response' = response
    /\ UNCHANGED <<requests, friendships, otherVars, op, user, pk, friend_request,
                   createResponse>>

\* lines 62-63: friend_request.status = 'accepted'; friend_request.save()
accept_save(w) ==
    /\ pc[w] = "accept_save"
    /\ SaveStatus(w, "accepted")
    /\ friend_request' = [friend_request EXCEPT ![w].status = "accepted"]
    /\ pc' = [pc EXCEPT ![w] = "accept_create1"]
    /\ UNCHANGED <<friendships, otherVars, op, user, pk, response,
                   createResponse>>

\* an IntegrityError caught and dropped
OnIntegrityError_Swallowed == "OK"

\* Friendship.objects.create stands in no try block: an IntegrityError of the
\* store leaves the handler and is the call's outcome
OnIntegrityError == "Conflict"

\* the pairs the two Friendship.objects.create calls of accept insert
FirstPair(fr) == <<fr.sender, fr.receiver>>
SecondPair(fr) == <<fr.receiver, fr.sender>>

\* line 66: Friendship.objects.create(user1=sender, user2=receiver); an
\* IntegrityError of the store is not caught and ends the call
accept_create1(w) ==
    /\ pc[w] = "accept_create1"
    /\ LET p == FirstPair(friend_request[w]) IN
       IF UniqueTogether(p[1], p[2])
       THEN /\ friendships' = FriendshipInserted(p[1], p[2])
            /\ pc' = [pc EXCEPT ![w] = "accept_create2"]
            /\ response' = response
       ELSE /\ friendships' = friendships
            /\ Finish(w, OnIntegrityError)
    /\ UNCHANGED <<requests, otherVars, op, user, pk, friend_request,
                   createResponse>>

\* lines 67-68: Friendship.objects.create(user1=receiver, user2=sender) and
\* the 200 response
accept_create2(w) ==
    /\ pc[w] = "accept_create2"
    /\ LET p == SecondPair(friend_request[w]) IN
       IF UniqueTogether(p[1], p[2])
       THEN /\ friendships' = FriendshipInserted(p[1], p[2])
            /\ Finish(w, "OK")
       ELSE /\ friendships' = friendships
            /\ Finish(w, OnIntegrityError)
    /\ UNCHANGED <<requests, otherVars, op, user, pk, friend_request,
                   createResponse>>

\* -------------------------------------------------- FriendRequest: decline

\* lines 72-74: load the request, refuse one that is not pending
decline(w, u, id) ==
    /\ Free(w)
    /\ op' = [op EXCEPT ![w] = "decline"]
    /\ user' = [user EXCEPT ![w] = u]
    /\ pk' = [pk EXCEPT ![w] = id]
    /\ LET fr == GetObjectOr404(u, id) IN
       /\ friend_request' = [friend_request EXCEPT ![w] = fr]
       /\ IF fr = NoRequest THEN Finish(w, "NotFound")
          ELSE IF ~IsPending(fr) THEN Finish(w, "AlreadyProcessed")
          ELSE /\ pc' = [pc EXCEPT ![w] = "decline_save"]
               /\ response' = [response EXCEPT ![w] = "none"]
    /\ UNCHANGED <<requests, friendships, otherVars, createResponse>>

\* lines 75-77: friend_request.status = 'declined'; friend_request.save()
decline_save(w) ==
    /\ pc[w] = "decline_save"
    /\ SaveStatus(w, "declined")
    /\ friend_request' = [friend_request EXCEPT ![w].status = "declined"]
    /\ Finish(w, "OK")
    /\ UNCHANGED <<friendships, otherVars, op, user, pk,
                   createResponse>>

\* -------------------------------------------------- FriendRequest: destroy

\* GenericAPIView.get_object over get_queryset (lines 47-48): the row with
\* that pk among the requests whose receiver is request.user
get_object(u, id) == GetObjectOr404(u, id)

\* FriendRequestViewSet is a ModelViewSet and overrides neither destroy nor
\* http_method_names: DELETE on a request runs DestroyModelMixin.destroy,
\* get_object() and instance.delete().  The pk of a deleted row is not given
\* out again; the table holds NoRequest in its place.
destroy(u, id) ==
    /\ IF get_object(u, id) = NoRequest
       THEN /\ requests' = requests
            /\ destroyResponse' = "NotFound"
       ELSE /\ requests' = [requests EXCEPT ![id] = NoRequest]
            /\ destroyResponse' = "NoContent"
    /\ UNCHANGED <<friendships, messageVars, notificationVars, pc, op, user, pk,
                   friend_request, response, createResponse>>

\* ------------------------------------------------------------ Message: send

\* MessageSerializer.is_valid for the posted data.  The serializer is declared
\* in core/serializers.py; its rule is the specification's: a message to
\* oneself or with an empty body is an InvalidTarget.
MessageSerializerIsValid(u, data) == data.receiver # u /\ data.body # ""

\* Message.timestamp of a row inserted now: the time of creation, later than
\* that of every stored row
Timestamp == Len(messages) + 1

\* the sender taken from the posted data instead of request.user
CreatedMessage_PostedSender(u, data) ==
    [sender |-> data.sender, receiver |-> data.receiver, body |-> data.body,
     timestamp |-> Timestamp]

\* serializer.save(sender=self.request.user): the row that is inserted
CreatedMessage(u, data) ==
    [sender |-> u, receiver |-> data.receiver, body |-> data.body,
     timestamp |-> Timestamp]

send(u, data) ==
    /\ Len(messages) < MaxMessages
    /\ IF MessageSerializerIsValid(u, data)
       THEN /\ messages' = Append(messages, CreatedMessage(u, data))
            /\ msgResponse' = "Created"
       ELSE /\ messages' = messages
            /\ msgResponse' = "InvalidTarget"
    /\ UNCHANGED <<friendVars, threadResult, notificationVars, destroyResponse>>

\* ---------------------------------------------------------- Message: thread

\* User.id, the integer a friend_id names
UserId(u) == CASE u = "A" -> 1 [] u = "B" -> 2 [] u = "C" -> 3

\* the friend_id query parameter: absent, or a text
NoFriendId == [present |-> FALSE, text |-> <<>>]
FriendIdTexts ==
    {<<>>, <<"1">>, <<"2">>, <<"3">>, <<"7">>, <<"a">>, <<"-">>,
     <<"-", "1">>, <<"1", "2">>, <<"2", "a">>}
FriendIds == {NoFriendId} \cup {[present |-> TRUE, text |-> t] : t \in FriendIdTexts}

IsDigit(c) == c \in {"1", "2", "3", "7"}
DigitValue(c) == CASE c = "1" -> 1 [] c = "2" -> 2 [] c = "3" -> 3 [] c = "7" -> 7

AllDigits(t) == t # <<>> /\ \A i \in DOMAIN t : IsDigit(t[i])

RECURSIVE DigitsValue(_)
DigitsValue(t) ==
    IF t = <<>> THEN 0
    ELSE 10 * DigitsValue(SubSeq(t, 1, Len(t) - 1)) + DigitValue(t[Len(t)])

\* int(friend_id): TypeError for None, ValueError for a text that is no
\* decimal integer; ok says that neither was raised
ParseInt(q) ==
    IF ~q.present THEN [ok |-> FALSE, value |-> 0]
    ELSE IF AllDigits(q.text) THEN [ok |-> TRUE, value |-> DigitsValue(q.text)]
    ELSE IF Len(q.text) > 1 /\ q.text[1] = "-" /\ AllDigits(Tail(q.text))
         THEN [ok |-> TRUE, value |-> 0 - DigitsValue(Tail(q.text))]
    ELSE [ok |-> FALSE, value |-> 0]

\* the filter with its second alternative left out
ThreadFilter_SentOnly(u, friend_id, m) ==
    m.sender = u /\ UserId(m.receiver) = friend_id

\* (Q(sender=user) & Q(receiver_id=friend_id)) |
\* (Q(sender_id=friend_id) & Q(receiver=user))
ThreadFilter(u, friend_id, m) ==
    \/ m.sender = u /\ UserId(m.receiver) = friend_id
    \/ UserId(m.sender) = friend_id /\ m.receiver = u

\* the ordering reversed
Before_Descending(m, n) == m.timestamp >= n.timestamp

\* order_by('timestamp'): m does not come after n
Before(m, n) == m.timestamp <= n.timestamp

\* the rows of S in the order of order_by
RECURSIVE Ordered(_)
Ordered(S) ==
    IF S = {} THEN <<>>
    ELSE LET first == CHOOSE m \in S : \A n \in S : Before(m, n)
         IN <<first>> \o Ordered(S \ {first})

\* every message the user sent or received, whatever the counterpart
EmptyQuerySet_AllOfUser(u) ==
    Ordered({messages[i] : i \in {j \in DOMAIN messages :
                 messages[j].sender = u \/ messages[j].receiver = u}})

\* Message.objects.none()
EmptyQuerySet(u) == <<>>

\* ChatMessageViewSet.get_queryset for request.user = u and friend_id = q
get_queryset(u, q) ==
    LET friend_id == ParseInt(q) IN
    IF ~friend_id.ok
    THEN [kind |-> "none", rows |-> EmptyQuerySet(u)]
    ELSE [kind |-> "filtered",
          rows |-> Ordered({messages[i] : i \in {j \in DOMAIN messages :
                               ThreadFilter(u, friend_id.value, messages[j])}})]

\* ListModelMixin.list: the rows of get_queryset are the response
list_thread(u, q) ==
    /\ threadResult' = get_queryset(u, q)
    /\ UNCHANGED <<friendVars, messages, msgResponse, notificationVars,
                   destroyResponse>>

\* ------------------------------------------------------------ Notification

\* primary keys a client may put in the URL of mark-read
NotificationIds == 1..MaxNotifications

\* The Notification Service's notify(owner, kind, payload): a pure append of an
\* unread notice.  views.py reads and marks notifications and never creates
\* one; the rows it works on come from this operation of the specification.
notify(owner) ==
    /\ Len(notifications) < MaxNotifications
    /\ notifications' = Append(notifications, [user |-> owner, is_read |-> FALSE])
    /\ UNCHANGED <<friendVars, messageVars, notification, destroyResponse>>

\* the lookup without its user=request.user filter
GetNotificationOr404_AnyUser(u, id) ==
    IF id \in DOMAIN notifications THEN notifications[id] ELSE NoNotification

\* get_object_or_404(Notification, pk=id, user=u): the row, or NoNotification
\* when no row has that pk and that user
GetNotificationOr404(u, id) ==
    IF id \in DOMAIN notifications /\ notifications[id].user = u
    THEN notifications[id]
    ELSE NoNotification

\* the flag flipped instead of set
MarkedRead_Toggled(n) == [n EXCEPT !.is_read = ~@]

\* notification.is_read = True
MarkedRead(n) == [n EXCEPT !.is_read = TRUE]

\* line 150: load the notification of request.user
mark_read(w, u, id) ==
    /\ Free(w)
    /\ op' = [op EXCEPT ![w] = "mark_read"]
    /\ user' = [user EXCEPT ![w] = u]
    /\ pk' = [pk EXCEPT ![w] = id]
    /\ LET n == GetNotificationOr404(u, id) IN
       /\ notification' = [notification EXCEPT ![w] = n]
       /\ IF n = NoNotification THEN Finish(w, "NotFound")
          ELSE /\ pc' = [pc EXCEPT ![w] = "mark_read_save"]
               /\ response' = [response EXCEPT ![w] = "none"]
    /\ UNCHANGED <<requests, friendships, friend_request, createResponse,
                   messageVars, notifications, destroyResponse>>

\* lines 151-153: notification.is_read = True; notification.save(), which
\* writes every field of the loaded instance; the 200 response
mark_read_save(w) ==
    /\ pc[w] = "mark_read_save"
    /\ notification' = [notification EXCEPT ![w] = MarkedRead(notification[w])]
    /\ notifications' = [notifications EXCEPT ![pk[w]] = MarkedRead(notification[w])]
    /\ Finish(w, "OK")
    /\ UNCHANGED <<requests, friendships, friend_request, createResponse,
                   messageVars, op, user, pk, destroyResponse>>

\* ------------------------------------------------------------ specification

\* data a client may post: DRF ignores a posted sender only because
\* perform_create passes sender= to save()
RequestData == [sender : Users, receiver : Users]
MessageData == [sender : Users, receiver : Users, body : Bodies]

FriendNext ==
    \/ \E u \in Users, data \in RequestData : perform_create(u, data)
    \/ \E w \in Workers, u \in Users, id \in RequestIds : accept(w, u, id)
    \/ \E w \in Workers : accept_exists(w)
    \/ \E w \in Workers : accept_save(w)
    \/ \E w \in Workers : accept_create1(w)
    \/ \E w \in Workers : accept_create2(w)
    \/ \E w \in Workers, u \in Users, id \in RequestIds : decline(w, u, id)
    \/ \E w \in Workers : decline_save(w)

MessageNext ==
    \/ \E u \in Users, data \in MessageData : send(u, data)
    \/ \E u \in Users, q \in FriendIds : list_thread(u, q)

NotificationNext ==
    \/ \E owner \in Users : notify(owner)
    \/ \E w \in Workers, u \in Users, id \in NotificationIds : mark_read(w, u, id)
    \/ \E w \in Workers : mark_read_save(w)

\* the friend-request endpoint with the operations it inherits
ViewSetNext ==
    \/ FriendNext
    \/ \E u \in Users, id \in RequestIds : destroy(u, id)

\* no call is between two of its statements
NoCallInProgress == \A w \in Workers : pc[w] \in {"idle", "done"}

\* the friend-request endpoint serving one call after the other: a call
\* starts only when none is in progress
SequentialNext ==
    \/ NoCallInProgress /\ \E u \in Users, data \in RequestData : perform_create(u, data)
    \/ NoCallInProgress /\ \E w \in Workers, u \in Users, id \in RequestIds : accept(w, u, id)
    \/ NoCallInProgress /\ \E w \in Workers, u \in Users, id \in RequestIds : decline(w, u, id)
    \/ NoCallInProgress /\ \E u \in Users, id \in RequestIds : destroy(u, id)
    \/ \E w \in Workers : accept_exists(w)
    \/ \E w \in Workers : accept_save(w)
    \/ \E w \in Workers : accept_create1(w)
    \/ \E w \in Workers : accept_create2(w)
    \/ \E w \in Workers : decline_save(w)

Next == ViewSetNext \/ MessageNext \/ NotificationNext

\* The friend-request, message and notification handlers share no table, so
\* each family is also checked on its own.
Spec == Init /\ [][Next]_vars
SpecFriend == Init /\ [][FriendNext]_vars
SpecMessage == Init /\ [][MessageNext]_vars
SpecNotification == Init /\ [][NotificationNext]_vars
SpecViewSet == Init /\ [][ViewSetNext]_vars
SpecSequential == Init /\ [][SequentialNext]_vars

\* ------------------------------------------------------- shared vocabulary

Rows(a, b) == friendships[<<a, b>>]

\* worker w has finished a call of handler h on request id, which
\* get_object_or_404 found for it
Served(w, h, id) ==
    /\ pc[w] = "done"
    /\ op[w] = h
    /\ pk[w] = id
    /\ friend_request[w] # NoRequest

\* both workers have finished a call of the receiver on the same request id
\* (get_object_or_404 finds a request for its receiver only):
\* worker v served handler h1 and worker w served handler h2
BothServed(v, h1, w, h2, id) ==
    /\ v # w
    /\ id \in DOMAIN requests
    /\ Served(v, h1, id)
    /\ Served(w, h2, id)

\* ----------------------------------------------------------------- C1

\* C1: in every state, also between the statements of an accept in progress,
\* a FriendRequest with status accepted has both Friendship rows
\* (sender, receiver) and (receiver, sender).
C1_AcceptedHasBothRows ==
    \A id \in DOMAIN requests :
        requests[id].status = "accepted" =>
            /\ Rows(requests[id].sender, requests[id].receiver) > 0
            /\ Rows(requests[id].receiver, requests[id].sender) > 0

\* ----------------------------------------------------------------- C2

\* C2: once two accept calls of the receiver on the same request have both
\* finished, exactly one of them succeeded, the other got AlreadyProcessed,
\* and exactly one row (sender, receiver) and one row (receiver, sender) exist.
C2_ConcurrentAcceptsSerialize ==
    \A v, w \in Workers, id \in RequestIds :
        BothServed(v, "accept", w, "accept", id) =>
            /\ {response[v], response[w]} = {"OK", "AlreadyProcessed"}
            /\ Rows(requests[id].sender, requests[id].receiver) = 1
            /\ Rows(requests[id].receiver, requests[id].sender) = 1

\* ----------------------------------------------------------------- C3

\* C3: once an accept call and a decline call of the receiver on the same
\* request have both finished, exactly one succeeded and the other got
\* AlreadyProcessed, and a declined request has left no Friendship rows.
C3_AcceptDeclineSerialize ==
    \A v, w \in Workers, id \in RequestIds :
        BothServed(v, "accept", w, "decline", id) =>
            /\ {response[v], response[w]} = {"OK", "AlreadyProcessed"}
            /\ requests[id].status = "declined" =>
                   /\ Rows(requests[id].sender, requests[id].receiver) = 0
                   /\ Rows(requests[id].receiver, requests[id].sender) = 0

\* ----------------------------------------------------------------- C4

\* C4: in every state a Friendship row (a, b) exists exactly when a row
\* (b, a) exists.
C4_FriendshipSymmetric ==
    \A a, b \in Users : (Rows(a, b) > 0) <=> (Rows(b, a) > 0)

\* ----------------------------------------------------------------- C5

\* the tables a failed call must leave alone
TablesUnchanged == requests' = requests /\ friendships' = friendships

\* C5 as stated: accept and decline of a request that is accepted or declined
\* answer AlreadyProcessed to every acting user and change nothing.
C5_ProcessedRejectsAnyUser ==
    [][\A w \in Workers, u \in Users, id \in RequestIds :
          /\ accept(w, u, id) \/ decline(w, u, id)
          /\ id \in DOMAIN requests
          /\ requests[id].status \in {"accepted", "declined"}
          => /\ pc'[w] = "done"
             /\ response'[w] = "AlreadyProcessed"
             /\ TablesUnchanged]_vars

\* C5 amended: accept and decline of a request that is accepted or declined
\* change nothing whoever calls, and answer AlreadyProcessed when the caller
\* is the request's receiver; after an accept that succeeded and a second
\* accept that got AlreadyProcessed there is one pair of Friendship rows.
C5_ProcessedRejectsReceiver ==
    /\ [][\A w \in Workers, u \in Users, id \in RequestIds :
             /\ accept(w, u, id) \/ decline(w, u, id)
             /\ id \in DOMAIN requests
             /\ requests[id].status \in {"accepted", "declined"}
             => /\ pc'[w] = "done"
                /\ u = requests[id].receiver
                       => response'[w] = "AlreadyProcessed"
                /\ TablesUnchanged]_vars
    /\ [](\A v, w \in Workers, id \in RequestIds :
             /\ BothServed(v, "accept", w, "accept", id)
             /\ response[v] = "OK"
             /\ response[w] = "AlreadyProcessed"
             => /\ requests[id].status = "accepted"
                /\ Rows(requests[id].sender, requests[id].receiver) = 1
                /\ Rows(requests[id].receiver, requests[id].sender) = 1)

\* accept called twice in sequence by the receiver: one OK, then
\* AlreadyProcessed, and one pair of Friendship rows
C5_Witness ==
    \E v, w \in Workers, id \in RequestIds :
        /\ BothServed(v, "accept", w, "accept", id)
        /\ response[v] = "OK"
        /\ response[w] = "AlreadyProcessed"
        /\ requests[id].status = "accepted"
        /\ Rows(requests[id].sender, requests[id].receiver) = 1
        /\ Rows(requests[id].receiver, requests[id].sender) = 1

\* ----------------------------------------------------------------- C6

\* C6: accept and decline by a user who is not the request's receiver answer
\* NotFound, as they do for an id that names no request, and change nothing.
C6_NotReceiverNotFound ==
    [][\A w \in Workers, u \in Users, id \in RequestIds :
          /\ accept(w, u, id) \/ decline(w, u, id)
          /\ id \notin DOMAIN requests \/ requests[id].receiver # u
          => /\ pc'[w] = "done"
             /\ response'[w] = "NotFound"
             /\ TablesUnchanged]_vars

\* the sender of a pending request has called accept on it and got NotFound,
\* the answer the other worker got for an id that names no request
C6_Witness ==
    \E v, w \in Workers :
        /\ pc[w] = "done" /\ op[w] = "accept" /\ response[w] = "NotFound"
        /\ pk[w] \in DOMAIN requests
        /\ user[w] = requests[pk[w]].sender
        /\ requests[pk[w]].status = "pending"
        /\ pc[v] = "done" /\ op[v] = "decline" /\ response[v] = "NotFound"
        /\ pk[v] \notin DOMAIN requests

\* ----------------------------------------------------------------- C7

\* C7: when accept's friendship check runs for a pending request whose pair
\* already has a Friendship row in either direction, the call answers
\* DuplicateFriendship and nothing is changed.
C7_ExistingRowRejects ==
    [][\A w \in Workers :
          /\ accept_exists(w)
          /\ \/ Rows(friend_request[w].sender, friend_request[w].receiver) > 0
             \/ Rows(friend_request[w].receiver, friend_request[w].sender) > 0
          => /\ response'[w] = "DuplicateFriendship"
             /\ TablesUnchanged]_vars

\* ----------------------------------------------------------------- C8

\* requests i and j join the same two users, in the same or in opposite
\* directions
SamePair(i, j) ==
    {requests[i].sender, requests[i].receiver}
        = {requests[j].sender, requests[j].receiver}

\* both workers have finished accept calls on two different requests of the
\* same pair of users
TwoAcceptsOfOnePair(v, w, i, j) ==
    /\ v # w /\ i # j
    /\ i \in DOMAIN requests /\ j \in DOMAIN requests
    /\ SamePair(i, j)
    /\ Served(v, "accept", i)
    /\ Served(w, "accept", j)

IdOf(c) ==
    [present |-> TRUE,
     text |-> CASE c = "A" -> <<"1">> [] c = "B" -> <<"2">> [] c = "C" -> <<"3">>]

\* message m was exchanged between a and b
Between(m, a, b) ==
    \/ m.sender = a /\ m.receiver = b
    \/ m.sender = b /\ m.receiver = a

Hi == [sender |-> "A", receiver |-> "B", body |-> "hi", timestamp |-> 1]
Hello == [sender |-> "B", receiver |-> "A", body |-> "hello", timestamp |-> 2]

\* C11: for all users u and c, thread(u, c) holds only stored messages
\* exchanged between u and c, holds each of them once, and is in ascending
\* timestamp order; after A sent hi to B and B sent hello to A, thread(A, B)
\* is hi followed by hello.
C11_ThreadIsTheConversation ==
    \A u, c \in Users :
        LET t == get_queryset(u, IdOf(c)).rows IN
        /\ \A k \in DOMAIN t :
               /\ \E i \in DOMAIN messages : messages[i] = t[k]
               /\ Between(t[k], u, c)
        /\ \A i \in DOMAIN messages :
               Between(messages[i], u, c) =>
                   Cardinality({k \in DOMAIN t : t[k] = messages[i]}) = 1
        /\ \A k, l \in DOMAIN t : k < l => t[k].timestamp <= t[l].timestamp
        /\ (u = "A" /\ c = "B" /\ messages = <<Hi, Hello>>)
               => t = <<Hi, Hello>>

\* A has listed the thread with B after A sent hi and B answered hello
C11_Witness ==
    /\ messages = <<Hi, Hello>>
    /\ threadResult = [kind |-> "filtered", rows |-> <<Hi, Hello>>]

\* ---------------------------------------------------------------- C12

\* C12: for all users a and b, thread(a, b) listed by a and thread(b, a)
\* listed by b are the same sequence.
C12_ThreadSymmetric ==
    \A a, b \in Users :
        get_queryset(a, IdOf(b)).rows = get_queryset(b, IdOf(a)).rows

\* B has listed the thread with A, which holds a message in each direction
C12_Witness ==
    /\ threadResult.kind = "filtered"
    /\ threadResult.rows = get_queryset("B", IdOf("A")).rows
    /\ \E k, l \in DOMAIN threadResult.rows :
           /\ threadResult.rows[k].sender = "A"
           /\ threadResult.rows[l].sender = "B"

\* ---------------------------------------------------------------- C13

\* the table after one unread notification owned by owner was added
Notified(owner) == Append(notifications, [user |-> owner, is_read |-> FALSE])

\* C13: a successful create adds one unread Notification owned by the
\* receiver, a successful accept one owned by the request's sender, a
\* successful send one owned by the message's receiver; failed operations
\* add none.
C13_SuccessNotifies ==
    /\ [][\A u \in Users, data \in RequestData :
             perform_create(u, data) =>
                 notifications' = IF createResponse' = "Created"
                                  THEN Notified(data.receiver)
                                  ELSE notifications]_vars
    /\ [][\A w \in Workers :
             accept_create2(w) =>
                 notifications' = IF response'[w] = "OK"
                                  THEN Notified(friend_request[w].sender)
                                  ELSE notifications]_vars
    /\ [][\A u \in Users, data \in MessageData :
             send(u, data) =>
                 notifications' = IF msgResponse' = "Created"
                                  THEN Notified(data.receiver)
                                  ELSE notifications]_vars

\* ---------------------------------------------------------------- C14

\* worker w has finished a mark-read call on notification id, which
\* get_object_or_404 found for it
Marked(w, id) ==
    /\ pc[w] = "done"
    /\ op[w] = "mark_read"
    /\ pk[w] = id
    /\ notification[w] # NoNotification

\* C14: mark-read by the owner goes ahead whether the notification is read or
\* not, answers OK and leaves is_read true; applied to a notification that is
\* already read it leaves the table as it is; after two calls on the same
\* notification both have answered OK and is_read is true.
C14_MarkReadIdempotent ==
    /\ [][\A w \in Workers, u \in Users, id \in NotificationIds :
             /\ mark_read(w, u, id)
             /\ id \in DOMAIN notifications
             /\ notifications[id].user = u
             => /\ pc'[w] = "mark_read_save"
                /\ notifications' = notifications]_vars
    /\ [][\A w \in Workers :
             mark_read_save(w) =>
                 /\ response'[w] = "OK"
                 /\ notifications'[pk[w]].is_read
                 /\ notifications[pk[w]].is_read
                        => notifications' = notifications]_vars
    /\ [](\A v, w \in Workers, id \in NotificationIds :
             v # w /\ Marked(v, id) /\ Marked(w, id)
             => /\ response[v] = "OK" /\ response[w] = "OK"
                /\ notifications[id].is_read)

\* the owner has marked the same notification twice, the second time when it
\* was read already: OK both times, is_read true
C14_Witness ==
    \E v, w \in Workers, id \in DOMAIN notifications :
        /\ v # w /\ Marked(v, id) /\ Marked(w, id)
        /\ response[v] = "OK" /\ response[w] = "OK"
        /\ user[v] = notifications[id].user /\ user[w] = user[v]
        /\ notifications[id].is_read

\* ---------------------------------------------------------------- C15

\* C15: no step resets is_read from true to false; is_read changes only in
\* the save of a mark-read call of the notification's owner; mark-read by a
\* user who is not the owner answers NotFound and changes no notification.
C15_ReadOnlyByOwner ==
    /\ [][\A id \in DOMAIN notifications :
             /\ notifications[id].is_read => notifications'[id].is_read
             /\ notifications'[id].is_read # notifications[id].is_read
                    => \E w \in Workers :
                           /\ mark_read_save(w)
                           /\ pk[w] = id
                           /\ user[w] = notifications[id].user]_vars
    /\ [][\A w \in Workers, u \in Users, id \in NotificationIds :
             /\ mark_read(w, u, id)
             /\ id \in DOMAIN notifications
             /\ notifications[id].user # u
             => /\ pc'[w] = "done"
                /\ response'[w] = "NotFound"
                /\ notifications' = notifications]_vars

\* a user who is not the owner got NotFound for a notification that stays
\* unread, while the owner of another notification has marked it read
C15_Witness ==
    \E v, w \in Workers :
        /\ pc[w] = "done" /\ op[w] = "mark_read" /\ response[w] = "NotFound"
        /\ pk[w] \in DOMAIN notifications
        /\ user[w] # notifications[pk[w]].user
        /\ ~notifications[pk[w]].is_read
        /\ Marked(v, pk[v]) /\ response[v] = "OK"
        /\ user[v] = notifications[pk[v]].user
        /\ notifications[pk[v]].is_read

\* ---------------------------------------------------------------- C16

\* C16: in every step and for every stored request, the request is not
\* deleted, its sender and receiver stay, a status accepted or declined
\* stays, and the request changes only in the save of an accept or decline
\* call of its receiver while it is pending.
C16_OnlyAcceptDeclineChange ==
    [][\A id \in DOMAIN requests :
          requests[id] # NoRequest =>
              /\ requests'[id] # NoRequest
              /\ requests'[id].sender = requests[id].sender
              /\ requests'[id].receiver = requests[id].receiver
              /\ requests[id].status \in {"accepted", "declined"}
                     => requests'[id].status = requests[id].status
              /\ requests'[id] # requests[id]
                     => /\ requests[id].status = "pending"
                        /\ \E w \in Workers :
                               /\ accept_save(w) \/ decline_save(w)
                               /\ pk[w] = id
                               /\ user[w] = requests[id].receiver]_vars

\* ---------------------------------------------------------------- C17

\* the requests between a and b, in either direction, that are accepted
AcceptedBetween(a, b) ==
    {id \in DOMAIN requests :
        /\ requests[id].status = "accepted"
        /\ {requests[id].sender, requests[id].receiver} = {a, b}}

\* C17: in every state every Friendship row (a, b) has an accepted request
\* between a and b, and rows are added only by the two create statements of
\* accept.
C17_FriendshipOnlyFromAccept ==
    /\ [](\A a, b \in Users : Rows(a, b) > 0 => AcceptedBetween(a, b) # {})
    /\ [][friendships' # friendships
             => \E w \in Workers : accept_create1(w) \/ accept_create2(w)]_vars

\* ---------------------------------------------------------------- C18

\* C18: listing a thread with friend_id absent, not the decimal of an integer,
\* or the id of no user returns the empty sequence and changes no table.
C18_BadCounterpartEmpty ==
    [][\A u \in Users, q \in FriendIds :
          list_thread(u, q) /\ q \notin {IdOf(c) : c \in Users}
          => /\ threadResult'.rows = <<>>
             /\ threadResult'.kind \in {"none", "filtered"}
             /\ messages' = messages
             /\ requests' = requests
             /\ friendships' = friendships]_vars

\* a listing with a friend_id that is no integer came back empty although
\* messages are stored
C18_Witness ==
    /\ threadResult = [kind |-> "none", rows |-> <<>>]
    /\ Len(messages) > 0

\* ---------------------------------------------------------------- C19

\* C19: the save of a decline call sets the status of its request to
\* declined and changes nothing else: sender and receiver of the request,
\* every other request, the Friendship rows, the messages and the
\* notifications stay; the load before it changes no table at all.
C19_DeclineChangesOnlyStatus ==
    /\ [][\A w \in Workers :
             decline_save(w) =>
                 /\ response'[w] = "OK"
                 /\ requests' = [requests EXCEPT ![pk[w]].status = "declined"]
                 /\ friendships' = friendships
                 /\ messages' = messages
                 /\ notifications' = notifications]_vars
    /\ [][\A w \in Workers, u \in Users, id \in RequestIds :
             decline(w, u, id) =>
                 /\ TablesUnchanged
                 /\ messages' = messages
                 /\ notifications' = notifications]_vars

\* the receiver of two pending requests has accepted one and declined the
\* other: the declined one kept sender and receiver, the accepted one its
\* status and its Friendship rows
C19_Witness ==
    \E v, w \in Workers, i, j \in DOMAIN requests :
        /\ i # j
        /\ Served(w, "decline", j) /\ response[w] = "OK"
        /\ requests[j] = [friend_request[w] EXCEPT !.status = "declined"]
        /\ requests[j].receiver = user[w]
        /\ Served(v, "accept", i) /\ response[v] = "OK"
        /\ requests[i].receiver = requests[j].receiver
        /\ requests[i].status = "accepted"
        /\ Rows(requests[i].sender, requests[i].receiver) = 1
        /\ Rows(requests[i].receiver, requests[i].sender) = 1

\* ---------------------------------------------------------------- C20

\* the number of rows of the Friendship table that join two users of S
RECURSIVE RowsAmong(_)
RowsAmong(S) ==
    IF S = {} THEN 0
    ELSE LET p == CHOOSE q \in S : TRUE
         IN friendships[p] + RowsAmong(S \ {p})

\* the stored requests with status accepted
AcceptedRequests == {id \in DOMAIN requests : requests[id].status = "accepted"}

\* C20: when calls are served one after the other and none is in progress, at
\* most one request between the same two users is accepted and the Friendship
\* table has twice as many rows as there are accepted requests.
C20_OneAcceptedPerPair ==
    NoCallInProgress =>
        /\ \A a, b \in Users : Cardinality(AcceptedBetween(a, b)) <= 1
        /\ RowsAmong(Users \X Users) = 2 * Cardinality(AcceptedRequests)
====
